---- MODULE Spec2Model ----
(***************************************************************************)
(* Model of the OpenManus MCP launcher (run_mcp_server.js and the two      *)
(* wrapper scripts): the regex-based TOML patcher, the environment fold,   *)
(* the two default-backfill passes, the section reader and the child       *)
(* process supervision.                                                    *)
(*                                                                         *)
(* A configuration document is a string; the JavaScript string and RegExp  *)
(* primitives the code uses are modelled character by character.           *)
(* Section names and keys are identifiers (letters, digits, '_'), so the   *)
(* only regex metacharacter that an interpolated name can carry is the     *)
(* '.' of a nested section name, which is modelled as the wildcard it is.  *)
(***************************************************************************)
EXTENDS Integers, Sequences, FiniteSets, TLC

(***************************************************************************)
(* JavaScript string primitives                                            *)
(***************************************************************************)
Ch(s, i) == IF i >= 1 /\ i <= Len(s) THEN SubSeq(s, i, i) ELSE ""

Sub(s, i, j) == IF j < i THEN "" ELSE SubSeq(s, i, j)

From(s, i) == IF i > Len(s) THEN "" ELSE SubSeq(s, i, Len(s))

Upto(s, j) == IF j < 1 THEN "" ELSE IF j > Len(s) THEN s ELSE SubSeq(s, 1, j)

Min(S) == CHOOSE x \in S : \A y \in S : x <= y

StartsAt(s, i, p) ==
  i >= 1 /\ i + Len(p) - 1 <= Len(s) /\ SubSeq(s, i, i + Len(p) - 1) = p

\* String.prototype.indexOf, 1-based, 0 when absent
IndexOf(s, p, from) ==
  LET R == from..(Len(s) - Len(p) + 1)
  IN  IF \E i \in R : SubSeq(s, i, i + Len(p) - 1) = p
      THEN CHOOSE i \in R :
             /\ SubSeq(s, i, i + Len(p) - 1) = p
             /\ \A j \in from..(i - 1) : SubSeq(s, j, j + Len(p) - 1) # p
      ELSE 0

includes(s, p) == IndexOf(s, p, 1) # 0

startsWith(s, p) == StartsAt(s, 1, p)

endsWith(s, p) == Len(p) <= Len(s) /\ StartsAt(s, Len(s) - Len(p) + 1, p)

(***************************************************************************)
(* RegExp character classes and greedy runs                                *)
(***************************************************************************)
\* \s
IsSpace(c) == c \in {" ", "\t", "\n", "\r", "\f"}

\* what '.' refuses without the s flag
IsLineTerminator(c) == c \in {"\n", "\r"}

\* \d
IsDigit(c) == c \in {"0", "1", "2", "3", "4", "5", "6", "7", "8", "9"}

\* the first index from i on whose character is in set, Len(s) + 1 if none
Scan(s, i, set) ==
  IF \E j \in i..Len(s) : SubSeq(s, j, j) \in set
  THEN CHOOSE j \in i..Len(s) :
         /\ SubSeq(s, j, j) \in set
         /\ \A k \in i..(j - 1) : SubSeq(s, k, k) \notin set
  ELSE IF i > Len(s) THEN i ELSE Len(s) + 1

\* \s* from i: the first index that is not white space
SkipSpace(s, i) ==
  IF \E j \in i..Len(s) : ~IsSpace(SubSeq(s, j, j))
  THEN CHOOSE j \in i..Len(s) :
         /\ ~IsSpace(SubSeq(s, j, j))
         /\ \A k \in i..(j - 1) : IsSpace(SubSeq(s, k, k))
  ELSE IF i > Len(s) THEN i ELSE Len(s) + 1

\* .* from i (no s flag): the index of the last character it takes
LineEnd(s, i) == Scan(s, i, {"\n", "\r"}) - 1

\* [^\[]* from i: the index of the last character it takes
SpanEnd(s, i) == Scan(s, i, {"["}) - 1

\* [^\]]* from i: the index of the last character it takes
NameEnd(s, i) == Scan(s, i, {"]"}) - 1

(***************************************************************************)
(* String.prototype.replace with a string replacement: the $ patterns of   *)
(* the replacement text are expanded ($$, $&, $', $n with n a group of the *)
(* pattern); m is the number of capture groups of the pattern.             *)
(***************************************************************************)
RECURSIVE Expand(_, _, _, _, _)
Expand(r, m, matched, after, g1) ==
  LET d == IndexOf(r, "$", 1)
      pre == Upto(r, d - 1)
      c == Ch(r, d + 1)
      c2 == Ch(r, d + 2)
  IN  IF d = 0 THEN r
      ELSE CASE c = "$" -> pre \o "$" \o Expand(From(r, d + 2), m, matched, after, g1)
             [] c = "&" -> pre \o matched \o Expand(From(r, d + 2), m, matched, after, g1)
             [] c = "'" -> pre \o after \o Expand(From(r, d + 2), m, matched, after, g1)
             [] m >= 1 /\ c = "1" ->
                  pre \o g1 \o Expand(From(r, d + 2), m, matched, after, g1)
             [] m >= 1 /\ c = "0" /\ c2 = "1" ->
                  pre \o g1 \o Expand(From(r, d + 3), m, matched, after, g1)
             [] OTHER -> pre \o "$" \o Expand(From(r, d + 1), m, matched, after, g1)

\* s.replace(re, r) for a match of re spanning start..end of s
ReplaceMatch(s, start, end, m, g1, r) ==
  Upto(s, start - 1)
    \o Expand(r, m, Sub(s, start, end), From(s, end + 1), g1)
    \o From(s, end + 1)

(***************************************************************************)
(* The regular expressions of the patcher                                  *)
(***************************************************************************)
\* \[name\] at i; a '.' of the interpolated name matches any character
HeaderAt(s, i, name) ==
  /\ Ch(s, i) = "["
  /\ i + Len(name) + 1 <= Len(s)
  /\ \A k \in 1..Len(name) : Ch(name, k) = "." \/ Ch(name, k) = Ch(s, i + k)
  /\ Ch(s, i + Len(name) + 1) = "]"

\* the first index from i on where \[name\] matches, 0 if none
RECURSIVE FindHeader(_, _, _)
FindHeader(s, name, i) ==
  IF i > Len(s) THEN 0
  ELSE IF HeaderAt(s, i, name) THEN i
  ELSE FindHeader(s, name, Scan(s, i + 1, {"["}))

\* new RegExp(`\\[${name}\\]([^\\[]*)`, 's') matched against s:
\* start = 0 when there is no match; the group is body..end
sectionRegex(s, name) ==
  LET st == FindHeader(s, name, Scan(s, 1, {"["}))
      body == st + Len(name) + 2
  IN  [start |-> st, body |-> body,
       end |-> IF st = 0 THEN 0 ELSE SpanEnd(s, body)]

\* the first index from i on where key\s*= matches, 0 if none
RECURSIVE FindKey(_, _, _)
FindKey(t, key, i) ==
  LET j == IndexOf(t, key, i)
  IN  IF j = 0 THEN 0
      ELSE IF Ch(t, SkipSpace(t, j + Len(key))) = "=" THEN j
      ELSE FindKey(t, key, j + 1)

\* new RegExp(`${key}\\s*=\\s*.*`, 'm') matched against t
keyRegex(t, key) ==
  LET st == FindKey(t, key, 1)
      eq == SkipSpace(t, st + Len(key))
  IN  [start |-> st,
       end |-> IF st = 0 THEN 0 ELSE LineEnd(t, SkipSpace(t, eq + 1))]

(***************************************************************************)
(* Number(value) is not NaN: the StringToNumber grammar (white space       *)
(* trimmed; the empty string is 0; signed decimal with optional fraction   *)
(* and exponent; Infinity; 0x, 0o and 0b integers)                         *)
(***************************************************************************)
AllIn(t, set) == \A i \in 1..Len(t) : Ch(t, i) \in set

Digits == {"0", "1", "2", "3", "4", "5", "6", "7", "8", "9"}

HexDigits == Digits \cup {"a", "b", "c", "d", "e", "f", "A", "B", "C", "D", "E", "F"}

\* the last index down from i whose character is not white space, 0 if none
SkipSpaceBack(s, i) ==
  IF \E j \in 1..i : ~IsSpace(SubSeq(s, j, j))
  THEN CHOOSE j \in 1..i :
         /\ ~IsSpace(SubSeq(s, j, j))
         /\ \A k \in (j + 1)..i : IsSpace(SubSeq(s, k, k))
  ELSE 0

\* String.prototype.trim
TrimString(s) == Sub(s, SkipSpace(s, 1), SkipSpaceBack(s, Len(s)))

Unsigned(t) == IF Ch(t, 1) \in {"+", "-"} THEN From(t, 2) ELSE t

IsDecimalLiteral(u) ==
  LET es == {i \in 1..Len(u) : Ch(u, i) \in {"e", "E"}}
      e == IF es = {} THEN 0 ELSE Min(es)
      mant == IF e = 0 THEN u ELSE Upto(u, e - 1)
      ex == IF e = 0 THEN "" ELSE Unsigned(From(u, e + 1))
      dot == IndexOf(mant, ".", 1)
  IN  /\ e = 0 \/ (Len(ex) >= 1 /\ AllIn(ex, Digits))
      /\ IF dot = 0
         THEN Len(mant) >= 1 /\ AllIn(mant, Digits)
         ELSE /\ Len(mant) >= 2
              /\ AllIn(Upto(mant, dot - 1), Digits)
              /\ AllIn(From(mant, dot + 1), Digits)

IsRadixLiteral(t) ==
  \/ (Upto(t, 2) \in {"0x", "0X"} /\ Len(t) >= 3 /\ AllIn(From(t, 3), HexDigits))
  \/ (Upto(t, 2) \in {"0o", "0O"} /\ Len(t) >= 3
        /\ AllIn(From(t, 3), {"0", "1", "2", "3", "4", "5", "6", "7"}))
  \/ (Upto(t, 2) \in {"0b", "0B"} /\ Len(t) >= 3 /\ AllIn(From(t, 3), {"0", "1"}))

\* isNaN(Number(value))
isNaN(value) ==
  LET t == TrimString(value)
  IN  ~ \/ t = ""
        \/ Unsigned(t) = "Infinity"
        \/ IsRadixLiteral(t)
        \/ IsDecimalLiteral(Unsigned(t))

(***************************************************************************)
(* updateTomlValue                                                         *)
(***************************************************************************)
\* path.split('.')
RECURSIVE split(_)
split(path) ==
  LET d == IndexOf(path, ".", 1)
  IN  IF d = 0 THEN <<path>>
      ELSE <<Upto(path, d - 1)>> \o split(From(path, d + 1))

\* the quoting rule
formattedValue(value) ==
  IF value = "true" \/ value = "false" \/ ~isNaN(value) THEN value
  ELSE IF startsWith(value, "[") /\ endsWith(value, "]") THEN value
  ELSE "\"" \o value \o "\""

\* the key is absent from the section: append it to the section's span
AppendKey(content, m, name, g1, key, fv) ==
  ReplaceMatch(content, m.start, m.end, 1, g1,
               "[" \o name \o "]" \o g1 \o "\n" \o key \o " = " \o fv)

\* the section [name] exists: replace the first match of the key in its span,
\* or append the key to the span
updateInSection(content, name, key, fv) ==
  LET m == sectionRegex(content, name)
      g1 == Sub(content, m.body, m.end)
      k == keyRegex(g1, key)
  IN  IF k.start # 0
      THEN ReplaceMatch(content, m.start, m.end, 1, g1,
             "[" \o name \o "]"
               \o ReplaceMatch(g1, k.start, k.end, 0, "", key \o " = " \o fv))
      ELSE AppendKey(content, m, name, g1, key, fv)

\* a brand-new section block at the end of the document
newSection(content, name, key, fv) ==
  content \o "\n[" \o name \o "]\n" \o key \o " = " \o fv \o "\n"

\* new RegExp(`\\[${section}\\.([^\\]]*)\\]([^\\[]*)`, 'g'): the successive
\* exec matches from index `from`, each as [name, text]
RECURSIVE FindNested(_, _, _)
FindNested(s, section, i) ==
  LET n == Len(section)
  IN  IF i > Len(s) THEN 0
      ELSE IF /\ \A k \in 1..n : Ch(section, k) = "." \/ Ch(section, k) = Ch(s, i + k)
              /\ Ch(s, i + n + 1) = "."
              /\ NameEnd(s, i + n + 2) < Len(s)
           THEN i
           ELSE FindNested(s, section, Scan(s, i + 1, {"["}))

RECURSIVE nestedSectionRegex(_, _, _)
nestedSectionRegex(s, section, from) ==
  LET n == Len(section)
      st == FindNested(s, section, Scan(s, from, {"["}))
      nm == NameEnd(s, st + n + 2)
      end == SpanEnd(s, nm + 2)
  IN  IF st = 0 THEN <<>>
      ELSE <<[name |-> Sub(s, st + n + 2, nm), text |-> Sub(s, nm + 2, end)]>>
             \o nestedSectionRegex(s, section, end + 1)

\* the 2-segment branch without the scan for a nested section named like the key
updateTwoLevelNoScan(content, section, key, fv) ==
  IF sectionRegex(content, section).start # 0
  THEN updateInSection(content, section, key, fv)
  ELSE newSection(content, section, key, fv)

\* the 2-segment branch
updateTwoLevel(content, section, key, fv) ==
  IF sectionRegex(content, section).start # 0
  THEN updateInSection(content, section, key, fv)
  ELSE LET ms == nestedSectionRegex(content, section, 1)
           foundMatch == \E i \in 1..Len(ms) : ms[i].name = key
       IN  IF ~foundMatch THEN newSection(content, section, key, fv) ELSE content

\* the 3-or-more-segment branch: only the first three segments are read
updateNested(content, pathParts, fv) ==
  LET nestedSection == pathParts[1] \o "." \o pathParts[2]
      key == pathParts[3]
  IN  IF sectionRegex(content, nestedSection).start # 0
      THEN updateInSection(content, nestedSection, key, fv)
      ELSE newSection(content, nestedSection, key, fv)

\* updateTomlValue of run_mcp_server.js
updateTomlValue(content, path, value) ==
  LET pathParts == split(path)
      fv == formattedValue(value)
  IN  IF Len(pathParts) > 2 THEN updateNested(content, pathParts, fv)
      ELSE IF Len(pathParts) = 2
           THEN updateTwoLevel(content, pathParts[1], pathParts[2], fv)
           ELSE content

\* updateTomlValue of the wrapper script: const [section, key] = path.split('.'),
\* so a missing second segment interpolates as the text "undefined"
updateTomlValueWrapper(content, path, value) ==
  LET pathParts == split(path)
      key == IF Len(pathParts) >= 2 THEN pathParts[2] ELSE "undefined"
  IN  updateTwoLevel(content, pathParts[1], key, formattedValue(value))

(***************************************************************************)
(* The mapping tables                                                      *)
(***************************************************************************)
ENV_MAPPINGS ==
  << <<"OPENMANUS_LLM_MODEL", "llm.model">>,
     <<"OPENMANUS_LLM_BASE_URL", "llm.base_url">>,
     <<"OPENAI_API_KEY", "llm.api_key">>,
     <<"OPENMANUS_LLM_API_KEY", "llm.api_key">>,
     <<"OPENMANUS_LLM_MAX_TOKENS", "llm.max_tokens">>,
     <<"OPENMANUS_LLM_TEMPERATURE", "llm.temperature">>,
     <<"OPENMANUS_LLM_API_TYPE", "llm.api_type">>,
     <<"OPENMANUS_LLM_API_VERSION", "llm.api_version">>,
     <<"OPENMANUS_LLM_OR_SITE_URL", "llm.openrouter.site_url">>,
     <<"OPENMANUS_LLM_OR_HTTP_REFERER", "llm.openrouter.http_referer">>,
     <<"OPENMANUS_VISION_MODEL", "llm.vision.model">>,
     <<"OPENMANUS_VISION_BASE_URL", "llm.vision.base_url">>,
     <<"OPENMANUS_VISION_API_KEY", "llm.vision.api_key">>,
     <<"OPENMANUS_VISION_MAX_TOKENS", "llm.vision.max_tokens">>,
     <<"OPENMANUS_VISION_TEMPERATURE", "llm.vision.temperature">>,
     <<"OPENMANUS_VISION_API_TYPE", "llm.vision.api_type">>,
     <<"OPENMANUS_BROWSER_HEADLESS", "browser.headless">>,
     <<"OPENMANUS_BROWSER_DISABLE_SECURITY", "browser.disable_security">>,
     <<"OPENMANUS_BROWSER_CHROME_PATH", "browser.chrome_instance_path">>,
     <<"OPENMANUS_BROWSER_WSS_URL", "browser.wss_url">>,
     <<"OPENMANUS_BROWSER_CDP_URL", "browser.cdp_url">>,
     <<"OPENMANUS_BROWSER_TIMEOUT", "browser.timeout">>,
     <<"OPENMANUS_BROWSER_RETRY_COUNT", "browser.retry_count">>,
     <<"OPENMANUS_BROWSER_RETRY_DELAY", "browser.retry_delay">>,
     <<"OPENMANUS_BROWSER_EXTRA_ARGS", "browser.extra_chromium_args">>,
     <<"OPENMANUS_PROXY_SERVER", "browser.proxy.server">>,
     <<"OPENMANUS_PROXY_USERNAME", "browser.proxy.username">>,
     <<"OPENMANUS_PROXY_PASSWORD", "browser.proxy.password">>,
     <<"OPENMANUS_SEARCH_ENGINE", "search.engine">>,
     <<"OPENMANUS_SEARCH_ENGINE_URL", "search.engine_url">>,
     <<"OPENMANUS_SEARCH_FALLBACK", "search.fallback_engines">>,
     <<"OPENMANUS_SEARCH_RETRY_DELAY", "search.retry_delay">>,
     <<"OPENMANUS_SEARCH_MAX_RETRIES", "search.max_retries">>,
     <<"OPENMANUS_SEARCH_LANG", "search.lang">>,
     <<"OPENMANUS_SEARCH_COUNTRY", "search.country">>,
     <<"OPENMANUS_SANDBOX_USE", "sandbox.use_sandbox">>,
     <<"OPENMANUS_SANDBOX_IMAGE", "sandbox.image">>,
     <<"OPENMANUS_SANDBOX_WORK_DIR", "sandbox.work_dir">>,
     <<"OPENMANUS_SANDBOX_MEMORY_LIMIT", "sandbox.memory_limit">>,
     <<"OPENMANUS_SANDBOX_CPU_LIMIT", "sandbox.cpu_limit">>,
     <<"OPENMANUS_SANDBOX_TIMEOUT", "sandbox.timeout">>,
     <<"OPENMANUS_SANDBOX_NETWORK", "sandbox.network_enabled">>,
     <<"OPENMANUS_MCP_SERVER_REFERENCE", "mcp.server_reference">> >>

\* the environment variables the launcher reads; "" stands for an unset one
EnvVars ==
  {ENV_MAPPINGS[i][1] : i \in 1..Len(ENV_MAPPINGS)}
    \cup {"OPENMANUS_PYTHON_PATH", "OPENMANUS_SKIP_DEPS"}

\* CONFIG_TO_ENV_MAPPINGS[path]: the last variable declared for the path, "" if none
CONFIG_TO_ENV_MAPPINGS(path) ==
  LET is == {i \in 1..Len(ENV_MAPPINGS) : ENV_MAPPINGS[i][2] = path}
  IN  IF is = {} THEN ""
      ELSE ENV_MAPPINGS[CHOOSE i \in is : \A j \in is : j <= i][1]

\* the loop of updateConfigIfNeeded over Object.entries(ENV_MAPPINGS), from entry i
RECURSIVE applyEnv(_, _, _)
applyEnv(content, e, i) ==
  IF i > Len(ENV_MAPPINGS) THEN content
  ELSE applyEnv(IF e[ENV_MAPPINGS[i][1]] # ""
                THEN updateTomlValue(content, ENV_MAPPINGS[i][2], e[ENV_MAPPINGS[i][1]])
                ELSE content,
                e, i + 1)

(***************************************************************************)
(* The section reader                                                      *)
(***************************************************************************)
\* getConfigSection on the content read by readAllConfig (null when the file is
\* missing or empty): the trimmed text of [section], else the object of the
\* nested sections [section.X], else null
getConfigSection(present, content, section) ==
  LET m == sectionRegex(content, section)
      ms == nestedSectionRegex(content, section, 1)
      names == {ms[i].name : i \in 1..Len(ms)}
  IN  IF ~present \/ content = "" THEN [kind |-> "null"]
      ELSE IF m.start # 0
           THEN [kind |-> "text", text |-> TrimString(Sub(content, m.body, m.end))]
           ELSE IF names # {}
                THEN [kind |-> "nested",
                      sections |-> [n \in names |->
                         TrimString(ms[CHOOSE i \in 1..Len(ms) :
                                      /\ ms[i].name = n
                                      /\ \A j \in 1..Len(ms) : ms[j].name = n => j <= i].text)]]
                ELSE [kind |-> "null"]

(***************************************************************************)
(* The default-backfill passes                                             *)
(***************************************************************************)
\* the first index from i on where key\s*=\s*"[^"]*" matches, 0 if none
RECURSIVE FindQuoted(_, _, _)
FindQuoted(s, key, i) ==
  LET j == FindKey(s, key, i)
      q == SkipSpace(s, SkipSpace(s, j + Len(key)) + 1)
  IN  IF j = 0 THEN 0
      ELSE IF Ch(s, q) = "\"" /\ IndexOf(s, "\"", q + 1) # 0 THEN j
      ELSE FindQuoted(s, key, j + 1)

\* /key\s*=\s*"([^"]*)"/ matched against s: start = 0 when there is no match
quotedRegex(s, key) ==
  LET st == FindQuoted(s, key, 1)
      q == SkipSpace(s, SkipSpace(s, st + Len(key)) + 1)
  IN  [start |-> st,
       group |-> IF st = 0 THEN "" ELSE Sub(s, q + 1, IndexOf(s, "\"", q + 1) - 1)]

\* the first index from i on where key\s*=\s*\d matches, 0 if none
RECURSIVE FindDigits(_, _, _)
FindDigits(s, key, i) ==
  LET j == FindKey(s, key, i)
  IN  IF j = 0 THEN 0
      ELSE IF IsDigit(Ch(s, SkipSpace(s, SkipSpace(s, j + Len(key)) + 1))) THEN j
      ELSE FindDigits(s, key, j + 1)

\* /key\s*=\s*\d+/ has a match in s
digitsRegex(s, key) == FindDigits(s, key, 1) # 0

\* configContent.replace(/\[name\]([^\[]*)/s, r)
replaceSection(content, name, r) ==
  LET m == sectionRegex(content, name)
  IN  IF m.start = 0 THEN content
      ELSE ReplaceMatch(content, m.start, m.end, 1, Sub(content, m.body, m.end), r)

\* the engine name to default URL lookup
defaultUrl(engine) ==
  IF engine = "bing" THEN "https://www.bing.com"
  ELSE IF engine = "duckduckgo" THEN "https://duckduckgo.com"
  ELSE IF engine = "yahoo" THEN "https://search.yahoo.com"
  ELSE "https://www.google.com"

\* the read-modify part of checkSearchEngineSettings: the new content and
\* whether it is to be written
searchSettings(content) ==
  IF ~includes(content, "[search]")
  THEN [content |-> content \o "\n[search]\n" \o "engine = \"google\"\n"
                      \o "engine_url = \"https://www.google.com\"\n"
                      \o "lang = \"ja\"\n" \o "country = \"jp\"\n",
        modified |-> TRUE]
  ELSE IF quotedRegex(content, "engine_url").start = 0
       THEN LET engineMatch == quotedRegex(content, "engine")
                engine == IF engineMatch.start # 0 THEN engineMatch.group ELSE "google"
            IN  [content |-> replaceSection(content, "search",
                               "[search]$1engine_url = \"" \o defaultUrl(engine) \o "\"\n"),
                 modified |-> TRUE]
       ELSE [content |-> content, modified |-> FALSE]

\* one of the three browser keys, backfilled when no key = digits is found
backfillKey(content, key, default) ==
  IF ~digitsRegex(content, key)
  THEN [content |-> replaceSection(content, "browser",
                      "[browser]$1" \o key \o " = " \o default \o "\n"),
        modified |-> TRUE]
  ELSE [content |-> content, modified |-> FALSE]

\* checkBrowserSettings with the modified flag set by the existence checks alone
browserSettingsAlwaysModified(content) ==
  IF ~includes(content, "[browser]")
  THEN [content |-> content \o "\n[browser]\n" \o "headless = false\n"
                      \o "disable_security = true\n" \o "timeout = 30000\n"
                      \o "retry_count = 3\n" \o "retry_delay = 1000\n",
        modified |-> TRUE]
  ELSE LET a == backfillKey(content, "timeout", "30000")
           b == backfillKey(a.content, "retry_count", "3")
           c == backfillKey(b.content, "retry_delay", "1000")
       IN  [content |-> c.content, modified |-> TRUE]

\* the read-modify part of checkBrowserSettings
browserSettings(content) ==
  IF ~includes(content, "[browser]")
  THEN [content |-> content \o "\n[browser]\n" \o "headless = false\n"
                      \o "disable_security = true\n" \o "timeout = 30000\n"
                      \o "retry_count = 3\n" \o "retry_delay = 1000\n",
        modified |-> TRUE]
  ELSE LET a == backfillKey(content, "timeout", "30000")
           b == backfillKey(a.content, "retry_count", "3")
           c == backfillKey(b.content, "retry_delay", "1000")
       IN  [content |-> c.content,
            modified |-> a.modified \/ b.modified \/ c.modified]

(***************************************************************************)
(* State                                                                   *)
(***************************************************************************)
VARIABLES
  file,       \* the text of config/config.toml ("" while it does not exist)
  exists,     \* config/config.toml exists
  example,    \* config/config.example.toml: <<>> or <<its text>>
  env,        \* process.env, "" for an unset variable
  pc,         \* the operation last performed, or the position of main
  prev,       \* the text of config.toml before the last operation
  writes,     \* the number of fs.writeFileSync calls of the last operation
  call,       \* the updates of the last updateConfigViaMCP call
  ret,        \* the section and data of the getConfigViaMCP call made since the
              \* last update (NoRet if none)
  n,          \* the number of operations performed
  launcher,   \* which script this process runs
  file0,      \* the text of config.toml when the process started
  hasEntry,   \* the file the launcher is to start exists
  child,      \* "none", "running", "closed" or "failed"
  childCode,  \* the exit code the child closed with (-1 before)
  exitCode,   \* the exit code of the launcher (-1 while it runs)
  delivered,  \* the signals passed on to the child
  received,   \* the signals the launcher received while the child ran
  steps       \* the steps the launcher has completed, in order, each as
              \* <<step, result>>

vars == <<file, exists, example, env, pc, prev, writes, call, ret, n,
          launcher, file0, hasEntry, child, childCode, exitCode, delivered,
          received, steps>>

procVars == <<launcher, file0, hasEntry, child, childCode, exitCode, delivered,
              received, steps>>

(***************************************************************************)
(* Bounds and inputs                                                       *)
(***************************************************************************)
MaxCalls == 1

MaxRuns == 2

MaxPasses == 2

MaxExitCode == 2

SecLlm == "[llm]\nmodel = \"gpt-4o\"\napi_key = \"sk-old\"\n"

SecLlmNoKey == "[llm]\nmodel = \"gpt-4o\"\n"

SecVision == "[llm.vision]\nmodel = \"gpt-4o\"\n"

SecBrowser == "[browser]\nheadless = true\n"

SecBrowserFull ==
  "[browser]\nheadless = true\ntimeout = 5000\nretry_count = 1\nretry_delay = 500\n"

SecSearch == "[search]\nengine = \"yahoo\"\n"

SecSearchUrl == "[search]\nengine = \"bing\"\nengine_url = \"https://www.bing.com\"\n"

SecSearchCustom == "[search.custom]\nengine = \"duckduckgo\"\n"

SecSandbox == "[sandbox]\ntimeout = 300\n"

\* every document made of at most two different blocks of B
Docs(B) == {""} \cup B \cup {p[1] \o p[2] : p \in {q \in B \X B : q[1] # q[2]}}

EnvNone == [v \in EnvVars |-> ""]

NoCall == <<>>

NoRet == [section |-> "", data |-> [kind |-> "none"]]

\* the part of Init every specification shares
InitCommon ==
  /\ prev = file
  /\ file0 = file
  /\ writes = 0
  /\ call = NoCall
  /\ ret = NoRet
  /\ n = 0
  /\ child = "none"
  /\ childCode = -1
  /\ exitCode = -1
  /\ delivered = {}
  /\ received = {}
  /\ steps = <<>>

(***************************************************************************)
(* The configuration operations                                            *)
(***************************************************************************)
\* updateConfigViaMCP's loop over Object.entries(updates), from entry i:
\* the content and the environment after it
RECURSIVE applyUpdates(_, _, _, _)
applyUpdates(content, e, updates, i) ==
  IF i > Len(updates) THEN [content |-> content, env |-> e]
  ELSE LET path == updates[i][1]
           value == updates[i][2]
           new == updateTomlValue(content, path, value)
           var == CONFIG_TO_ENV_MAPPINGS(path)
       IN  applyUpdates(new,
                        IF new # content /\ var # "" THEN [e EXCEPT ![var] = value] ELSE e,
                        updates, i + 1)

\* updateConfigViaMCP(updates)
UpdateConfigViaMCP(updates) ==
  /\ n < MaxCalls
  /\ LET r == applyUpdates(file, env, updates, 1)
     IN  IF ~exists
         THEN /\ UNCHANGED <<file, env>>
              /\ writes' = 0
         ELSE /\ file' = r.content
              /\ env' = r.env
              /\ writes' = 1
  /\ prev' = file
  /\ call' = updates
  /\ pc' = "updateConfigViaMCP"
  /\ n' = n + 1
  /\ ret' = NoRet
  /\ UNCHANGED <<exists, example>>
  /\ UNCHANGED procVars

\* getConfigViaMCP(section) with a section given
GetConfigViaMCP(section) ==
  /\ pc = "updateConfigViaMCP"
  /\ ret' = [section |-> section, data |-> getConfigSection(exists, file, section)]
  /\ pc' = "getConfigViaMCP"
  /\ UNCHANGED <<file, exists, example, env, prev, writes, call, n>>
  /\ UNCHANGED procVars

\* updateConfigIfNeeded of run_mcp_server.js
UpdateConfigIfNeeded ==
  LET copy == ~exists /\ example # <<>>
      content == IF copy THEN example[1] ELSE file
  IN  /\ prev' = file
      /\ exists' = (exists \/ copy)
      /\ IF exists \/ copy
         THEN /\ file' = applyEnv(content, env, 1)
              /\ writes' = 1
         ELSE /\ file' = file
              /\ writes' = 0
      /\ UNCHANGED <<example, env, call, ret>>

\* checkSearchEngineSettings
CheckSearchEngineSettings ==
  LET r == searchSettings(file)
  IN  /\ prev' = file
      /\ IF exists /\ r.modified
         THEN file' = r.content /\ writes' = 1
         ELSE file' = file /\ writes' = 0
      /\ UNCHANGED <<exists, example, env, call, ret>>

\* checkBrowserSettings
CheckBrowserSettings ==
  LET r == browserSettings(file)
  IN  /\ prev' = file
      /\ IF exists /\ r.modified
         THEN file' = r.content /\ writes' = 1
         ELSE file' = file /\ writes' = 0
      /\ UNCHANGED <<exists, example, env, call, ret>>

(***************************************************************************)
(* The MCP configuration interface on a document: updateTomlValue and      *)
(* getConfigSection applied to inputs drawn from bounded sets              *)
(***************************************************************************)
PatchDocs ==
  Docs({SecLlm, SecSearch, SecSearchCustom, SecVision})
    \cup {"[search.extra\n" \o SecSearchCustom}

PatchPaths ==
  {"search.engine", "search.custom", "search.fallback_engines", "llm.api_key",
   "llm.vision.model", "search", "llm.vision.extra.key"}

PatchValues == {"bing", "true", "[\"bing\"]", "pa$$wd", "", " "}

PatchSections == {"search", "llm", "llm.vision"}

InitPatch ==
  /\ \/ exists = TRUE /\ file \in PatchDocs
     \/ exists = FALSE /\ file = ""
  /\ example = <<>>
  /\ env = EnvNone
  /\ pc = "idle"
  /\ launcher = "run_mcp_server"
  /\ hasEntry = TRUE
  /\ InitCommon

NextPatch ==
  \/ \E path \in PatchPaths, value \in PatchValues :
       UpdateConfigViaMCP(<< <<path, value>> >>)
  \/ \E section \in PatchSections : GetConfigViaMCP(section)

SpecPatch == InitPatch /\ [][NextPatch]_vars

(***************************************************************************)
(* The environment fold, run once per launch of the script (SpecEnv)       *)
(***************************************************************************)
KeyA == "sk-aaaaaaaaaaaaaaaaaaaaaaaaaaaaaaaaaaaaa"

KeyB == "sk-bbbbbbbbbbbbbbbbbbbbbbbbbbbbbbbbbbbbb"

EnvDocs ==
  Docs({SecLlm, SecBrowser, SecSearch}) \cup Docs({SecLlmNoKey, SecVision, SecSearchUrl})

Envs ==
  {[EnvNone EXCEPT !["OPENAI_API_KEY"] = k1,
                   !["OPENMANUS_LLM_API_KEY"] = k2,
                   !["OPENMANUS_SEARCH_FALLBACK"] = fb,
                   !["OPENMANUS_BROWSER_HEADLESS"] = h] :
     k1 \in {"", KeyA}, k2 \in {"", KeyB}, fb \in {"", "[\"bing\"]"}, h \in {"", "true"}}

InitEnv ==
  /\ \/ exists = TRUE /\ file \in EnvDocs /\ example = <<>>
     \/ exists = FALSE /\ file = "" /\ example \in {<<>>, <<SecLlm \o SecBrowser>>}
  /\ env \in Envs
  /\ pc = "idle"
  /\ launcher = "run_mcp_server"
  /\ hasEntry = TRUE
  /\ InitCommon

RunUpdateConfigIfNeeded ==
  /\ n < MaxRuns
  /\ UpdateConfigIfNeeded
  /\ pc' = "updateConfigIfNeeded"
  /\ n' = n + 1
  /\ UNCHANGED procVars

NextEnv == RunUpdateConfigIfNeeded

SpecEnv == InitEnv /\ [][NextEnv]_vars

(***************************************************************************)
(* The default-backfill passes on a document (SpecBackfill)                *)
(***************************************************************************)
SecMirror == "[mirror]\nengine_url = \"https://mirror.example\"\n"

BackfillDocs ==
  Docs({SecBrowser, SecSandbox, SecSearch, SecSearchCustom, SecMirror})
    \cup Docs({SecBrowserFull, SecSearchUrl, SecLlm})
    \cup {"[browser]\nheadless = true",
          updateTomlValue("[browser]\ndisable_security = true\n", "browser.headless", "true"),
          SecSearch \o "[browser]\ntimeout = \"30s\"\n",
          "[search]\nengine_url = 'https://www.bing.com'\n"}

InitBackfill ==
  /\ \/ exists = TRUE /\ file \in BackfillDocs
     \/ exists = FALSE /\ file = ""
  /\ example = <<>>
  /\ env = EnvNone
  /\ pc = "idle"
  /\ launcher = "run_mcp_server"
  /\ hasEntry = TRUE
  /\ InitCommon

RunCheckSearchEngineSettings ==
  /\ n < MaxPasses
  /\ CheckSearchEngineSettings
  /\ pc' = "checkSearchEngineSettings"
  /\ n' = n + 1
  /\ UNCHANGED procVars

RunCheckBrowserSettings ==
  /\ n < MaxPasses
  /\ CheckBrowserSettings
  /\ pc' = "checkBrowserSettings"
  /\ n' = n + 1
  /\ UNCHANGED procVars

NextBackfill == RunCheckSearchEngineSettings \/ RunCheckBrowserSettings

SpecBackfill == InitBackfill /\ [][NextBackfill]_vars

(***************************************************************************)
(* The launchers (SpecLaunch): main of run_mcp_server.js, the uvx start    *)
(* script and the wrapper script, each with the one child it spawns        *)
(***************************************************************************)
\* the wrapper script's table: the entries of ENV_MAPPINGS it declares
ENV_MAPPINGS_WRAPPER ==
  SelectSeq(ENV_MAPPINGS,
            LAMBDA e : e[1] \notin {"OPENMANUS_LLM_OR_SITE_URL",
                                    "OPENMANUS_LLM_OR_HTTP_REFERER",
                                    "OPENMANUS_BROWSER_TIMEOUT",
                                    "OPENMANUS_BROWSER_RETRY_COUNT",
                                    "OPENMANUS_BROWSER_RETRY_DELAY",
                                    "OPENMANUS_BROWSER_EXTRA_ARGS",
                                    "OPENMANUS_SEARCH_ENGINE_URL"})

\* the loop of the wrapper script's updateConfigIfNeeded, from entry i
RECURSIVE applyEnvWrapper(_, _, _)
applyEnvWrapper(content, e, i) ==
  IF i > Len(ENV_MAPPINGS_WRAPPER) THEN content
  ELSE applyEnvWrapper(
         IF e[ENV_MAPPINGS_WRAPPER[i][1]] # ""
         THEN updateTomlValueWrapper(content, ENV_MAPPINGS_WRAPPER[i][2],
                                     e[ENV_MAPPINGS_WRAPPER[i][1]])
         ELSE content,
         e, i + 1)

\* checkApiKey accepting every environment
checkApiKeyAny(e) == TRUE

\* checkApiKey
checkApiKey(e) ==
  LET apiKey == IF e["OPENAI_API_KEY"] # "" THEN e["OPENAI_API_KEY"]
                ELSE e["OPENMANUS_LLM_API_KEY"]
  IN  /\ apiKey # ""
      /\ ~(startsWith(apiKey, "sk-") /\ Len(apiKey) < 40)

LaunchDocs == {SecLlm \o SecSearchUrl, SecLlmNoKey \o SecBrowser, SecSearch}

LaunchEnvs ==
  {[EnvNone EXCEPT !["OPENAI_API_KEY"] = k1,
                   !["OPENMANUS_LLM_API_KEY"] = k2,
                   !["OPENMANUS_SEARCH_ENGINE"] = engine,
                   !["OPENMANUS_SEARCH_ENGINE_URL"] = url,
                   !["OPENMANUS_SKIP_DEPS"] = skip] :
     k1 \in {"", KeyA, "sk-short"}, k2 \in {"", KeyB, "sk-short"},
     engine \in {"", "bing"}, url \in {"", "https://search.example"},
     skip \in {"", "true"}}

InitLaunch ==
  /\ \/ exists = TRUE /\ file \in LaunchDocs /\ example = <<>>
     \/ exists = FALSE /\ file = "" /\ example = <<SecLlm \o SecBrowser>>
  /\ env \in LaunchEnvs
  /\ pc = "main"
  /\ launcher \in {"run_mcp_server", "run_uvx", "wrapper"}
  /\ hasEntry \in BOOLEAN
  /\ InitCommon

\* process.exit(code)
Exit(code) == exitCode' = code /\ pc' = "exited"

fileVars == <<file, exists, example, prev, writes, call, ret, n>>

\* main: checkPythonEnvironment and the exit on its failure
CheckPythonEnvironment ==
  /\ launcher = "run_mcp_server" /\ pc = "main"
  /\ IF hasEntry THEN pc' = "setSearchUrl" /\ UNCHANGED exitCode ELSE Exit(1)
  /\ steps' = Append(steps, <<"checkPythonEnvironment", hasEntry>>)
  /\ UNCHANGED <<fileVars, env, launcher, file0, hasEntry, child, childCode, delivered, received>>

\* main: OPENMANUS_SEARCH_ENGINE_URL is given its default when it is not set
\* (the step's result: the default was given)
SetSearchEngineUrl ==
  /\ launcher = "run_mcp_server" /\ pc = "setSearchUrl"
  /\ env' = IF env["OPENMANUS_SEARCH_ENGINE_URL"] = ""
            THEN [env EXCEPT !["OPENMANUS_SEARCH_ENGINE_URL"] =
                    defaultUrl(IF env["OPENMANUS_SEARCH_ENGINE"] # ""
                               THEN env["OPENMANUS_SEARCH_ENGINE"] ELSE "google")]
            ELSE env
  /\ pc' = "updateConfig"
  /\ steps' = Append(steps, <<"setSearchEngineUrl",
                              env["OPENMANUS_SEARCH_ENGINE_URL"] = "">>)
  /\ UNCHANGED <<fileVars, launcher, file0, hasEntry, child, childCode, exitCode,
                 delivered, received>>

MainUpdateConfigIfNeeded ==
  /\ launcher = "run_mcp_server" /\ pc = "updateConfig"
  /\ UpdateConfigIfNeeded
  /\ pc' = "checkSearch"
  /\ steps' = Append(steps, <<"updateConfigIfNeeded", TRUE>>)
  /\ UNCHANGED <<n, launcher, file0, hasEntry, child, childCode, exitCode, delivered, received>>

MainCheckSearchEngineSettings ==
  /\ launcher = "run_mcp_server" /\ pc = "checkSearch"
  /\ CheckSearchEngineSettings
  /\ pc' = "checkBrowser"
  /\ steps' = Append(steps, <<"checkSearchEngineSettings", TRUE>>)
  /\ UNCHANGED <<n, launcher, file0, hasEntry, child, childCode, exitCode, delivered, received>>

MainCheckBrowserSettings ==
  /\ launcher = "run_mcp_server" /\ pc = "checkBrowser"
  /\ CheckBrowserSettings
  /\ pc' = "checkApiKey"
  /\ steps' = Append(steps, <<"checkBrowserSettings", TRUE>>)
  /\ UNCHANGED <<n, launcher, file0, hasEntry, child, childCode, exitCode, delivered, received>>

\* main: checkApiKey and the exit on its failure
CheckApiKey ==
  /\ launcher = "run_mcp_server" /\ pc = "checkApiKey"
  /\ IF checkApiKey(env) THEN pc' = "install" /\ UNCHANGED exitCode ELSE Exit(1)
  /\ steps' = Append(steps, <<"checkApiKey", checkApiKey(env)>>)
  /\ UNCHANGED <<fileVars, env, launcher, file0, hasEntry, child, childCode, delivered, received>>

\* main: installPythonDependencies unless OPENMANUS_SKIP_DEPS is 'true'; pip's
\* outcome is only logged
InstallPythonDependencies ==
  /\ launcher = "run_mcp_server" /\ pc = "install"
  /\ pc' = "start"
  /\ steps' = IF env["OPENMANUS_SKIP_DEPS"] # "true"
              THEN Append(steps, <<"installPythonDependencies", TRUE>>)
              ELSE steps
  /\ UNCHANGED <<fileVars, env, launcher, file0, hasEntry, child, childCode, exitCode,
                 delivered, received>>

\* the uvx start script up to its spawn: exit 1 when the script to run is missing
UvxStart ==
  /\ launcher = "run_uvx" /\ pc = "main"
  /\ IF hasEntry
     THEN /\ child' = "running" /\ pc' = "running" /\ UNCHANGED exitCode
          /\ steps' = Append(steps, <<"spawn", TRUE>>)
     ELSE Exit(1) /\ UNCHANGED <<child, steps>>
  /\ UNCHANGED <<fileVars, env, launcher, file0, hasEntry, childCode, delivered, received>>

\* the wrapper script's updateConfigIfNeeded
WrapperUpdateConfigIfNeeded ==
  /\ launcher = "wrapper" /\ pc = "main"
  /\ LET copy == ~exists /\ example # <<>>
         content == IF copy THEN example[1] ELSE file
     IN  /\ prev' = file
         /\ exists' = (exists \/ copy)
         /\ IF exists \/ copy
            THEN file' = applyEnvWrapper(content, env, 1) /\ writes' = 1
            ELSE file' = file /\ writes' = 0
  /\ pc' = "start"
  /\ steps' = Append(steps, <<"updateConfigIfNeeded", TRUE>>)
  /\ UNCHANGED <<example, env, call, ret, n, launcher, file0, hasEntry, child, childCode,
                 exitCode, delivered, received>>

\* startMCPServer, and the spawn of the wrapper script
StartMCPServer ==
  /\ launcher \in {"run_mcp_server", "wrapper"} /\ pc = "start"
  /\ child' = "running"
  /\ pc' = "running"
  /\ steps' = Append(steps, <<"spawn", TRUE>>)
  /\ UNCHANGED <<fileVars, env, launcher, file0, hasEntry, childCode, exitCode, delivered, received>>

\* the child's 'close' event with its exit code: only the uvx start script exits
\* with it
OnClose(code) ==
  /\ pc = "running" /\ child = "running"
  /\ child' = "closed"
  /\ childCode' = code
  /\ IF launcher = "run_uvx" /\ code # 0
     THEN Exit(code)
     ELSE pc' = "draining" /\ UNCHANGED exitCode
  /\ UNCHANGED <<fileVars, env, launcher, file0, hasEntry, delivered, received, steps>>

\* nothing is left to wait for: the process ends with exit code 0
EventLoopExit ==
  /\ pc = "draining"
  /\ Exit(0)
  /\ UNCHANGED <<fileVars, env, launcher, file0, hasEntry, child, childCode, delivered, received, steps>>

\* the child's 'error' event: the handlers exit 1, and the wrapper script, which
\* has no handler, ends with the uncaught error and exit code 1
OnError ==
  /\ pc = "running" /\ child = "running"
  /\ child' = "failed"
  /\ Exit(1)
  /\ UNCHANGED <<fileVars, env, launcher, file0, hasEntry, childCode, delivered, received, steps>>

\* SIGINT: the uvx start script passes it on; the two others pass it on and
\* exit 0, and run_mcp_server.js's 'exit' handler then kills the child (SIGTERM)
OnSIGINT ==
  /\ pc = "running" /\ child = "running"
  /\ received' = received \cup {"SIGINT"}
  /\ delivered' = delivered \cup (IF launcher = "run_mcp_server"
                                  THEN {"SIGINT", "SIGTERM"} ELSE {"SIGINT"})
  /\ IF launcher = "run_uvx" THEN UNCHANGED <<pc, exitCode>> ELSE Exit(0)
  /\ UNCHANGED <<fileVars, env, launcher, file0, hasEntry, child, childCode, steps>>

\* SIGTERM: the uvx start script passes it on; the two others have no handler
\* and are terminated by the signal
OnSIGTERM ==
  /\ pc = "running" /\ child = "running"
  /\ IF launcher = "run_uvx"
     THEN delivered' = delivered \cup {"SIGTERM"} /\ UNCHANGED <<pc, exitCode>>
     ELSE Exit(128 + 15) /\ UNCHANGED delivered
  /\ received' = received \cup {"SIGTERM"}
  /\ UNCHANGED <<fileVars, env, launcher, file0, hasEntry, child, childCode, steps>>

NextLaunch ==
  \/ CheckPythonEnvironment
  \/ SetSearchEngineUrl
  \/ MainUpdateConfigIfNeeded
  \/ MainCheckSearchEngineSettings
  \/ MainCheckBrowserSettings
  \/ CheckApiKey
  \/ InstallPythonDependencies
  \/ UvxStart
  \/ WrapperUpdateConfigIfNeeded
  \/ StartMCPServer
  \/ \E code \in 0..MaxExitCode : OnClose(code)
  \/ EventLoopExit
  \/ OnError
  \/ OnSIGINT
  \/ OnSIGTERM

SpecLaunch == InitLaunch /\ [][NextLaunch]_vars

(***************************************************************************)
(* Claims about the patcher and the reader (SpecPatch)                     *)
(***************************************************************************)
CallPath == call[1][1]

CallValue == call[1][2]

Arity == Len(split(CallPath))

\* the key a path of 2 or 3 segments names
KeyOf(path) == split(path)[Len(split(path))]

\* the section a path of 2 or 3 segments names
SectionOf(path) ==
  IF Len(split(path)) = 2 THEN split(path)[1]
  ELSE split(path)[1] \o "." \o split(path)[2]

\* every "[section." of s opens a complete header [section.X], X free of brackets
CompleteHeaders(s, section) ==
  \A i \in 1..Len(s) :
    StartsAt(s, i, "[" \o section \o ".")
      => Ch(s, Scan(s, i + Len(section) + 2, {"[", "]"})) = "]"

\* C2: after a persisted updateTomlValue(content, path, value) with a path of 2 or
\* 3 segments, getConfigSection on the affected section returns text that
\* contains "key = <value formatted by the quoting rule>"
C2_SetThenRead ==
  (/\ pc = "getConfigViaMCP"
   /\ exists
   /\ Arity \in {2, 3}
   /\ ret.section = SectionOf(CallPath))
    => /\ ret.data.kind = "text"
       /\ includes(ret.data.text,
                   KeyOf(CallPath) \o " = " \o formattedValue(CallValue))

\* C3: updateTomlValue with a path of 1 segment or of 4 or more segments returns
\* the content unchanged
C3_UnsupportedArityNoOp ==
  (pc = "updateConfigViaMCP" /\ exists /\ Arity \notin {2, 3}) => file = prev

\* C4 as stated: with a nested header [search.custom] in the content, whether or
\* not [search] is there too, updateTomlValue(content, "search.custom", v) returns
\* the content unchanged
C4_CollisionNoOpAnySearch ==
  (/\ pc = "updateConfigViaMCP"
   /\ exists
   /\ CallPath = "search.custom"
   /\ includes(prev, "[search.custom]"))
    => file = prev

\* C4 as amended: with a nested header [search.custom] in the content, no text
\* "[search]" in it and every "[search." opening a complete header,
\* updateTomlValue(content, "search.custom", v) returns the content unchanged
C4_CollisionNoOp ==
  (/\ pc = "updateConfigViaMCP"
   /\ exists
   /\ CallPath = "search.custom"
   /\ includes(prev, "[search.custom]")
   /\ ~includes(prev, "[search]")
   /\ CompleteHeaders(prev, "search"))
    => file = prev

\* C4's case: the 2-segment call met [search.custom] beside another section and
\* no [search], and left the document alone
C4_Witness ==
  /\ pc = "updateConfigViaMCP"
  /\ exists
  /\ CallPath = "search.custom"
  /\ prev = SecLlm \o SecSearchCustom
  /\ file = prev
  /\ writes = 1

\* the text that follows the first "key = " after the header of the section the
\* path names, up to the end of its line
WrittenValue(s, path) ==
  LET h == IndexOf(s, "[" \o SectionOf(path) \o "]", 1)
      k == IndexOf(s, KeyOf(path) \o " = ", h)
      from == k + Len(KeyOf(path)) + 3
  IN  IF h = 0 \/ k = 0 THEN "" ELSE Sub(s, from, LineEnd(s, from))

\* the value parses as a number: it holds a numeric literal
ParsesAsNumber(value) == TrimString(value) # "" /\ ~isNaN(value)

\* the quoting rule as documented
QuotingRule(value) ==
  IF \/ value \in {"true", "false"}
     \/ ParsesAsNumber(value)
     \/ startsWith(value, "[") /\ endsWith(value, "]")
  THEN value
  ELSE "\"" \o value \o "\""

\* C11: after an updateTomlValue call with a path of 2 or 3 segments that changed
\* the content, the text written after "key = " is not empty and begins with the
\* raw value, unquoted exactly when it is true, false, a number or a bracketed
\* array, and wrapped in double quotes otherwise
C11_ValueFormatting ==
  (/\ pc = "updateConfigViaMCP"
   /\ exists
   /\ Arity \in {2, 3}
   /\ file # prev)
    => /\ WrittenValue(file, CallPath) # ""
       /\ startsWith(WrittenValue(file, CallPath), QuotingRule(CallValue))

(***************************************************************************)
(* Reading a document as TOML: lines, and the lines of a section (from the *)
(* line after its header to the line before the next header line)          *)
(***************************************************************************)
RECURSIVE Lines(_)
Lines(s) ==
  LET e == IndexOf(s, "\n", 1)
  IN  IF e = 0 THEN <<s>> ELSE <<Upto(s, e - 1)>> \o Lines(From(s, e + 1))

IsHeaderLine(line) == startsWith(line, "[")

\* the line holds an assignment of key
IsAssignmentOf(line, key) ==
  startsWith(line, key) /\ Ch(line, SkipSpace(line, Len(key) + 1)) = "="

HasSection(s, name) == \E i \in 1..Len(Lines(s)) : Lines(s)[i] = "[" \o name \o "]"

SectionLines(s, name) ==
  LET ls == Lines(s)
      h == CHOOSE i \in 1..Len(ls) :
             ls[i] = "[" \o name \o "]" /\ \A j \in 1..(i - 1) : ls[j] # ls[i]
      nexts == {i \in (h + 1)..Len(ls) : IsHeaderLine(ls[i])}
  IN  IF ~HasSection(s, name) THEN <<>>
      ELSE SubSeq(ls, h + 1, IF nexts = {} THEN Len(ls) ELSE Min(nexts) - 1)

\* the assignments of key among the lines of the section
AssignmentsOf(s, name, key) ==
  LET ls == SectionLines(s, name)
  IN  [i \in {j \in 1..Len(ls) : IsAssignmentOf(ls[j], key)} |-> ls[i]]

\* the lines of the section that assign key, as a set
AssignmentSet(s, name, key) ==
  {SectionLines(s, name)[i] :
     i \in {j \in 1..Len(SectionLines(s, name)) :
              IsAssignmentOf(SectionLines(s, name)[j], key)}}

(***************************************************************************)
(* Claims about the environment fold (SpecEnv)                             *)
(***************************************************************************)
\* C1: a second fold of updateTomlValue over ENV_MAPPINGS, applied to the result
\* of the first with the same environment, leaves the content as the first fold
\* left it
C1_FoldIdempotent ==
  (pc = "updateConfigIfNeeded" /\ n >= 2) => file = prev

\* C5: with OPENAI_API_KEY and OPENMANUS_LLM_API_KEY both set, after
\* updateConfigIfNeeded the [llm] section holds exactly one api_key assignment,
\* and it is that of OPENMANUS_LLM_API_KEY
C5_AliasPrecedence ==
  (/\ pc = "updateConfigIfNeeded"
   /\ exists
   /\ env["OPENAI_API_KEY"] # ""
   /\ env["OPENMANUS_LLM_API_KEY"] # "")
    => /\ Cardinality(DOMAIN AssignmentsOf(file, "llm", "api_key")) = 1
       /\ AssignmentSet(file, "llm", "api_key")
            = {"api_key = " \o formattedValue(env["OPENMANUS_LLM_API_KEY"])}

(***************************************************************************)
(* Claims about the default-backfill passes (SpecBackfill)                 *)
(***************************************************************************)
BrowserDefaults ==
  [timeout |-> "30000", retry_count |-> "3", retry_delay |-> "1000"]

BrowserKeys == DOMAIN BrowserDefaults

LineSet(s) == {Lines(s)[i] : i \in 1..Len(Lines(s))}

\* the text between the quotes of the first assignment of key in the section,
\* none when the section has no such assignment
QuotedValueOf(s, name, key, none) ==
  LET as == AssignmentsOf(s, name, key)
      line == as[Min(DOMAIN as)]
      q == IndexOf(line, "\"", 1)
  IN  IF DOMAIN as = {} \/ q = 0 THEN none
      ELSE Sub(line, q + 1, IndexOf(line, "\"", q + 1) - 1)

\* C7: after checkBrowserSettings on a file with a [browser] section, the lines
\* of that section hold an assignment of each of timeout, retry_count and
\* retry_delay, whatever other sections hold
C7_BrowserBackfillComplete ==
  (pc = "checkBrowserSettings" /\ exists /\ HasSection(prev, "browser"))
    => \A k \in BrowserKeys :
         \E i \in 1..Len(SectionLines(file, "browser")) :
           keyRegex(SectionLines(file, "browser")[i], k).start # 0

\* C8: checkBrowserSettings on a file whose [browser] section lacks the three keys
\* keeps every header line and every key = value line of the file as a whole
\* line, and puts each default it inserts on a line of its own
C8_BrowserBackfillKeepsLines ==
  (/\ pc = "checkBrowserSettings"
   /\ exists
   /\ HasSection(prev, "browser")
   /\ \A k \in BrowserKeys : AssignmentSet(prev, "browser", k) = {})
    => /\ \A l \in LineSet(prev) :
            (IsHeaderLine(l) \/ includes(l, "=")) => l \in LineSet(file)
       /\ \A k \in BrowserKeys :
            (~includes(prev, k \o " = " \o BrowserDefaults[k])
               /\ includes(file, k \o " = " \o BrowserDefaults[k]))
              => (k \o " = " \o BrowserDefaults[k]) \in LineSet(file)

\* C9: after checkSearchEngineSettings on a file whose [search] section has no
\* engine_url, that section holds engine_url = the URL looked up for the section's
\* own engine (google when it has none), whatever other sections hold
C9_SearchBackfillDerived ==
  (/\ pc = "checkSearchEngineSettings"
   /\ exists
   /\ HasSection(prev, "search")
   /\ AssignmentSet(prev, "search", "engine_url") = {})
    => ("engine_url = \""
          \o defaultUrl(QuotedValueOf(prev, "search", "engine", "google")) \o "\"")
         \in AssignmentSet(file, "search", "engine_url")

\* C10: a backfill pass run directly after the same pass leaves the file as it is
\* and writes nothing; and a pass that leaves the file as it is writes nothing
C10_BackfillIdempotent ==
  [][(n' = n + 1 /\ pc' \in {"checkSearchEngineSettings", "checkBrowserSettings"})
       => /\ pc = pc' => (file' = file /\ writes' = 0)
          /\ file' = file => writes' = 0]_vars

\* C10's case: the browser pass has run twice in a row on a file it had to
\* complete the first time, and the second run wrote nothing
C10_Witness ==
  /\ pc = "checkBrowserSettings"
  /\ n = 2
  /\ exists
  /\ ~includes(file, "[search]")
  /\ includes(file, SecBrowser \o "timeout = 30000\n")
  /\ file = prev
  /\ writes = 0

(***************************************************************************)
(* Claims about the launchers (SpecLaunch)                                 *)
(***************************************************************************)
\* C6: in every launcher, once the child has been started and has closed, the
\* launcher's exit code is the child's exit code
C6_ExitCodePropagated ==
  (pc = "exited" /\ child = "closed") => exitCode = childCode

\* the positions of a step in the steps of the launcher
StepsOf(step) == {i \in DOMAIN steps : steps[i][1] = step}

\* neither API key variable is set
NoApiKey == env["OPENAI_API_KEY"] = "" /\ env["OPENMANUS_LLM_API_KEY"] = ""

\* C12: in main of run_mcp_server.js the server is spawned at most once, and only
\* after updateConfigIfNeeded, checkSearchEngineSettings and checkBrowserSettings
\* have completed and checkPythonEnvironment and checkApiKey have returned true;
\* with the entry file missing or no API key in the environment the launcher
\* never spawns the server and its exit code is 1
C12_LaunchGating ==
  launcher = "run_mcp_server"
    => /\ Cardinality(StepsOf("spawn")) <= 1
       /\ child # "none" => StepsOf("spawn") # {}
       /\ \A i \in StepsOf("spawn") :
            \A step \in {"checkPythonEnvironment", "updateConfigIfNeeded",
                         "checkSearchEngineSettings", "checkBrowserSettings",
                         "checkApiKey"} :
              \E j \in 1..(i - 1) : steps[j] = <<step, TRUE>>
       /\ (~hasEntry \/ NoApiKey)
            => /\ child = "none"
               /\ StepsOf("spawn") = {}
               /\ pc = "exited" => exitCode = 1

\* C12's case: main has gone through every step and the server is running
C12_Witness ==
  /\ launcher = "run_mcp_server"
  /\ child = "running"
  /\ Len(steps) = 8
  /\ steps[7] = <<"installPythonDependencies", TRUE>>
  /\ steps[8] = <<"spawn", TRUE>>

\* C13: in every launcher, a SIGINT or SIGTERM received while the child runs has
\* been delivered to the child by the time the launcher has exited
C13_SignalForwarded ==
  pc = "exited" => received \subseteq delivered

(***************************************************************************)
(* Claims about the structure of the document (SpecPatch)                  *)
(***************************************************************************)
HeaderLines(s) == {l \in LineSet(s) : IsHeaderLine(l)}

\* every '[' of s begins a line that is a header [name] and nothing else
HeadersAlone(s) ==
  \A i \in 1..Len(s) :
    Ch(s, i) = "["
      => /\ i = 1 \/ Ch(s, i - 1) = "\n"
         /\ Scan(s, i + 1, {"[", "]", "\n"}) = LineEnd(s, i)
         /\ Ch(s, LineEnd(s, i)) = "]"

\* the key = value lines of the section a header line opens
SectionAssignments(s, h) ==
  LET ls == SectionLines(s, Sub(h, 2, Len(h) - 1))
  IN  {ls[i] : i \in {j \in 1..Len(ls) : includes(ls[j], "=")}}

\* C14: after an updateTomlValue call with a path of 2 or 3 segments on a content
\* whose headers each stand alone on a line, every header line of the content is
\* still a line of the result, and the key = value lines of every section other
\* than the one the path names are the same
C14_HeadersSurvive ==
  (/\ pc = "updateConfigViaMCP"
   /\ exists
   /\ Arity \in {2, 3}
   /\ HeadersAlone(prev))
    => \A h \in HeaderLines(prev) :
         /\ h \in LineSet(file)
         /\ h # "[" \o SectionOf(CallPath) \o "]"
              => SectionAssignments(file, h) = SectionAssignments(prev, h)

\* the API key checkApiKey looks at
ValidatedKey ==
  IF env["OPENAI_API_KEY"] # "" THEN env["OPENAI_API_KEY"]
  ELSE env["OPENMANUS_LLM_API_KEY"]

\* C15: in main of run_mcp_server.js, once the server has been spawned, the
\* api_key of [llm] in config.toml is the key that checkApiKey validated
C15_ValidatedKeyWritten ==
  (launcher = "run_mcp_server" /\ child # "none" /\ exists)
    => startsWith(WrittenValue(file, "llm.api_key"), formattedValue(ValidatedKey))

\* C16: in main of run_mcp_server.js, with OPENMANUS_SEARCH_ENGINE_URL not set by
\* the user and an engine_url in [search] of config.toml, after the config phase
\* (default URL given to the environment, updateConfigIfNeeded,
\* checkSearchEngineSettings, checkBrowserSettings) engine_url in [search] has the
\* value it had in the file before the run
C16_UserEngineUrlKept ==
  (/\ launcher = "run_mcp_server"
   /\ StepsOf("checkBrowserSettings") # {}
   /\ \E i \in StepsOf("setSearchEngineUrl") : steps[i][2]
   /\ AssignmentSet(file0, "search", "engine_url") # {})
    => QuotedValueOf(file, "search", "engine_url", "")
         = QuotedValueOf(file0, "search", "engine_url", "")

====
